---- MODULE Spec2Model ----
(***************************************************************************)
(* HearSight: the job queue in backend/db/pg_store.py and the pipeline     *)
(* worker _job_worker in main.py.                                          *)
(*                                                                         *)
(* Every store function opens its own connection and runs one transaction  *)
(* (PostgreSQL default isolation, READ COMMITTED).  A step of the model is *)
(* one SQL statement of such a transaction together with the local code    *)
(* that follows it; workers interleave between statements.                 *)
(***************************************************************************)
EXTENDS Integers, Sequences, FiniteSets, TLC

\* ------------------------------------------------------------------ bounds
\* number of create_job calls
MaxJobs == 2
\* number of jobs claim_next_pending_job hands out in a run: of several
\* workers, of a single worker
MaxClaims == 2
MaxClaimsSingle == 3
\* restarts of the worker process in a run checked for progress
MaxCrashes == 2
\* chat requests of a run
MaxRequests == 2

\* worker processes that may run _job_worker against the shared store
Workers == {"w1", "w2"}
\* source locators submitted by clients
Urls == {"u1", "u2"}

\* ------------------------------------------------------------- result maps
\* A result mapping is a function from a set of keys to values; the column
\* result_json is the empty sequence (SQL NULL) or <<m>> (the JSON text of m).
NoResult == <<>>
EmptyMap == [k \in {} |-> 0]
Keys(m) == DOMAIN m

\* dict.update: patch's fields added or overwritten, the others kept
DictUpdateReplace(current, patch) == patch
DictUpdate(current, patch) ==
    [k \in (DOMAIN current) \cup (DOMAIN patch) |->
        IF k \in DOMAIN patch THEN patch[k] ELSE current[k]]

\* -------------------------------------------------------------- transcripts
\* get_transcript_by_id: a time stamp that "looks like seconds" is taken to
\* milliseconds
SecondsThreshold == 100000
MsPerSecond == 1000

NormalizeTime(t) ==
    IF t > 0 /\ t < SecondsThreshold THEN t * MsPerSecond ELSE t

NormalizeSeg(seg, idx) ==
    [index      |-> seg.index,
     spk_id     |-> seg.spk_id,
     sentence   |-> seg.sentence,
     start_time |-> NormalizeTime(seg.start_time),
     end_time   |-> NormalizeTime(seg.end_time)]

NormalizeSegs(segs) == [i \in 1..Len(segs) |-> NormalizeSeg(segs[i], i - 1)]

\* The stage executors are outside the repository; a run of one either raises
\* or returns the output that belongs to its input.  u1 is a recording with a
\* sentence in its first seconds, for which the summariser returns one
\* paragraph; u2 has its sentence from 0 ms to 120 s, and the summariser
\* returns no paragraph for it.
SegEarly == [index |-> 0, spk_id |-> 0, sentence |-> "s", start_time |-> 1500, end_time |-> 4000]
SegLate  == [index |-> 0, spk_id |-> 0, sentence |-> "s", start_time |-> 0, end_time |-> 120000]

\* download_bilibili(url, out_dir=static_dir): the file it leaves behind
MediaPath(u) == <<"static", u>>
Basename(path) == path[Len(path)]

\* asr_process(media_path)
AsrOutput(path) == IF Basename(path) = "u1" THEN <<SegEarly>> ELSE <<SegLate>>

\* summarize_segments(segments, ...)
SummaryOutput(segs) ==
    IF segs # <<>> /\ segs[1].start_time > 0
    THEN <<[summary |-> "p", text |-> "s"]>> ELSE <<>>

\* --------------------------------------------------------------- variables
VARIABLES
    jobs,          \* table jobs: row id -> [url, status, started_at, finished_at, result, error]
    transcripts,   \* table transcripts: row id -> [media_path, segments]
    summaries,     \* table summaries: row id -> [transcript_id, summaries]
    files,         \* media files present in the static directory
    clock,         \* the store's now()
    procs,         \* the worker processes of this deployment
    budget,        \* jobs claim_next_pending_job may still hand out in this run
    pc,            \* per worker: the statement it executes next
    job_id,        \* per worker: id of the job returned by the claim (0: none)
    res,           \* per worker: the local res of _job_worker
    patch,         \* per worker: argument of the update_job_result call in progress
    current,       \* per worker: row read by the update_job_result call in progress
    ret,           \* per worker: where _job_worker continues after update_job_result
    err,           \* per worker: str(e) of the exception _job_worker caught ("": none)
    sync_success,  \* per worker: what sync_transcript_to_vector_db returned ("": not called)
    txnow,         \* per worker: now() of the claim transaction in progress
    chat_history,  \* table chat_history: row id -> [session_id, role, content, metadata, req]
    reqs,          \* chat requests: request id -> its orchestrator's locals and response
    inserts,       \* save_chat_message transactions in progress (direct callers)
    fetched,       \* what the last direct get_chat_history call returned
    formatted,     \* what the direct format_rag_context calls returned
    collection,    \* vector collection video_summaries: entries [id, document, metadata]
    stored         \* the store_summary calls made so far, with what they returned

vars == <<jobs, transcripts, summaries, files, clock, procs, budget,
          pc, job_id, res, patch, current, ret, err, sync_success, txnow,
          chat_history, reqs, inserts, fetched, formatted, collection, stored>>

store  == <<jobs, transcripts, summaries, files, clock>>
locals == <<pc, job_id, res, patch, current, ret, err, sync_success, txnow>>
chat   == <<chat_history, reqs, inserts, fetched, formatted, collection, stored>>

\* --------------------------------------------------------------- job store
\* SQL NULL of a TEXT column; a set value v is <<v>>
Null == <<>>

Min(S) == CHOOSE x \in S : \A y \in S : x <= y
Max(S) == CHOOSE x \in S : \A y \in S : x >= y

\* INSERT INTO jobs (url, status) VALUES (url, 'pending') RETURNING id
create_jobRunning(js, u) ==
    Append(js, [url |-> u, status |-> "running", started_at |-> 0,
                finished_at |-> 0, result |-> NoResult, error |-> Null])
create_job(js, u) ==
    Append(js, [url |-> u, status |-> "pending", started_at |-> 0,
                finished_at |-> 0, result |-> NoResult, error |-> Null])

\* get_job(...)["result"], then dict(info.get("result") or {}) in _job_worker
StoredResult(js, id) ==
    IF id \in DOMAIN js /\ js[id].result # NoResult THEN js[id].result[1] ELSE EmptyMap

IgnoreStoredResult(js, id) == EmptyMap
get_job_result(js, id) == StoredResult(js, id)

\* the workers about to run the recovery SELECT of claim_next_pending_job
Recovering == {w \in procs : pc[w] = "claim_recover"}

\* rows a claim in flight has locked: SELECT ... FOR UPDATE holds the row
\* lock until the transaction ends
Locked == {job_id[w] : w \in {v \in procs : pc[v] = "claim_update"}}

\* SELECT id, url FROM jobs WHERE status = 'pending' ORDER BY id ASC
\* FOR UPDATE SKIP LOCKED LIMIT 1      (0: no row)
PendingUnlocked(js, locked) ==
    {i \in DOMAIN js : js[i].status = "pending" /\ i \notin locked}

SelectPendingAnyLock(js, locked) ==
    IF PendingUnlocked(js, {}) = {} THEN 0 ELSE Min(PendingUnlocked(js, {}))
SelectPendingNewest(js, locked) ==
    IF PendingUnlocked(js, locked) = {} THEN 0 ELSE Max(PendingUnlocked(js, locked))
SelectPending(js, locked) ==
    IF PendingUnlocked(js, locked) = {} THEN 0 ELSE Min(PendingUnlocked(js, locked))

\* UPDATE jobs SET status = 'running', started_at = now() WHERE id = rid
MarkRunning(js, rid, now) ==
    [js EXCEPT ![rid].status = "running", ![rid].started_at = now]

\* SELECT id, url FROM jobs WHERE status = 'running' AND finished_at IS NULL
\* ORDER BY started_at ASC LIMIT 1     (the rows that may come first)
Unfinished(js) ==
    {i \in DOMAIN js : js[i].status = "running" /\ js[i].finished_at = 0}

SelectRunningNone(js) == {}
SelectRunningLatest(js) ==
    {i \in Unfinished(js) : \A k \in Unfinished(js) : js[i].started_at >= js[k].started_at}
SelectRunning(js) ==
    {i \in Unfinished(js) : \A k \in Unfinished(js) : js[i].started_at <= js[k].started_at}

\* what the recovery branch does to the row it returns: nothing
RecoverRow(js, rid, now) == js

\* UPDATE jobs SET status = 'success', finished_at = now(), result_json = ...
finish_job_success(js, id, result, now) ==
    [js EXCEPT ![id].status = "success", ![id].finished_at = now,
               ![id].result = <<result>>]

\* UPDATE jobs SET status = 'failed', finished_at = now(), error = ...
finish_job_failedNoStamp(js, id, error, now) ==
    [js EXCEPT ![id].status = "failed", ![id].error = <<error>>]
finish_job_failedDropResult(js, id, error, now) ==
    [js EXCEPT ![id].status = "failed", ![id].finished_at = now,
               ![id].error = <<error>>, ![id].result = NoResult]
finish_job_failed(js, id, error, now) ==
    [js EXCEPT ![id].status = "failed", ![id].finished_at = now,
               ![id].error = <<error>>]

\* update_job_result, first statement: SELECT result_json FROM jobs WHERE id
\* (no row, NULL, blank or not a JSON object: the empty mapping)
UpdateCurrent(js, id) == StoredResult(js, id)

\* update_job_result, second statement: current.update(patch), then
\* UPDATE jobs SET result_json = ... [, status = ...] WHERE id  ("": no status)
\* the UPDATE left out: the call returns without having written
UpdateRowDropped(js, id, cur, p, status) == js
UpdateRow(js, id, cur, p, status) ==
    IF id \notin DOMAIN js THEN js
    ELSE [js EXCEPT ![id].result = <<DictUpdate(cur, p)>>,
                    ![id].status = IF status # "" THEN status ELSE @]

\* the whole call when nothing interleaves
update_job_result(js, id, p, status) ==
    UpdateRow(js, id, UpdateCurrent(js, id), p, status)

\* INSERT INTO transcripts (media_path, segments_json) ... RETURNING id
save_transcript(ts, media_path, segs) ==
    Append(ts, [media_path |-> media_path, segments |-> segs])

\* get_transcript_by_id(...)["segments"], [] when the row is missing
get_transcript_segments(ts, tid) ==
    IF tid \in DOMAIN ts THEN NormalizeSegs(ts[tid].segments) ELSE <<>>

\* INSERT INTO summaries (transcript_id, summaries_json) ... RETURNING id
save_summaries(ss, tid, sums) ==
    Append(ss, [transcript_id |-> tid, summaries |-> sums])

\* ------------------------------------------------------------ _job_worker
\* truthiness tests of _job_worker on res
HasMedia(r)      == "media_path" \in DOMAIN r /\ r.media_path # <<>>
HasTranscript(r) == "transcript_id" \in DOMAIN r /\ r.transcript_id # 0
HasSummaries(r)  == "summaries" \in DOMAIN r /\ r.summaries # <<>>
Segs(r) == IF "segments" \in DOMAIN r THEN r.segments ELSE <<>>

\* str(e) of the exceptions the stage executors raise
DownloadEmpty  == "download result empty"
DownloadError  == "download error"
AsrError       == "asr error"
SummarizeError == "summarize error"
SyncErrorText  == "sync error"

\* the literals _job_worker passes to res.update and update_job_result
Downloading    == [progress |-> 10, stage |-> "downloading"]
Downloaded(u)  == [media_path |-> MediaPath(u), basename |-> Basename(MediaPath(u)),
                   static_url |-> <<"/static", Basename(MediaPath(u))>>,
                   progress |-> 30, stage |-> "downloaded"]
Recognizing    == [progress |-> 40, stage |-> "recognizing"]
RecognizedNoSegs(tid, segs) == [transcript_id |-> tid, progress |-> 70, stage |-> "recognized"]
RecognizedRes(tid, segs) == [transcript_id |-> tid, segments |-> segs,
                             progress |-> 70, stage |-> "recognized"]
Recognized(tid) == [transcript_id |-> tid, progress |-> 70, stage |-> "recognized"]
Summarizing    == [progress |-> 80, stage |-> "summarizing"]
Summarized(sums, sid) == [summaries |-> sums, summary_id |-> sid,
                          progress |-> 95, stage |-> "summarized"]
SummarySkipped == [progress |-> 95, stage |-> "summary skipped (no API)"]
SummaryFailed  == [progress |-> 95, stage |-> "summary failed: summarize error"]
Synced         == [vector_synced |-> TRUE]
NotSynced      == [vector_synced |-> FALSE]
SyncError      == [vector_synced |-> FALSE, vector_sync_error |-> SyncErrorText]
Finished       == [progress |-> 100, stage |-> "done"]

\* Step A runs the download when res has no media_path or the file is gone
NeedsDownload(r, fs) == ~HasMedia(r) \/ r.media_path \notin fs
\* Step B runs the recogniser when res has no transcript_id
NeedsTranscribe(r) == ~HasTranscript(r)
\* Step C runs the summariser when res has no summaries and segs is not empty
NeedsSummarize(r) == ~HasSummaries(r) /\ Segs(r) # <<>>
\* Step D runs the vector sync when res has a transcript_id and summaries
NeedsSync(r) == HasTranscript(r) /\ HasSummaries(r)

\* outcomes of the external stage executors
DownloadOutcomes   == {"ok", "empty", "raise"}
TranscribeOutcomes == {"ok", "raise"}
SummarizeOutcomes  == {"ok", "noapi", "raise"}
SyncOutcomes       == {"ok", "false", "raise"}

\* Step D: res after sync_transcript_to_vector_db returned
AfterSync(r, outcome) ==
    IF outcome = "ok" THEN DictUpdate(r, Synced) ELSE DictUpdate(r, NotSynced)

\* Step B, else branch: res["segments"] read back through get_transcript_by_id
WithStoredSegments(r, ts) ==
    DictUpdate(r, [segments |-> get_transcript_segments(ts, r.transcript_id)])

Idle(w) ==
    /\ pc'      = [pc EXCEPT ![w] = "claim"]
    /\ job_id'  = [job_id EXCEPT ![w] = 0]
    /\ res'     = [res EXCEPT ![w] = EmptyMap]
    /\ patch'   = [patch EXCEPT ![w] = EmptyMap]
    /\ current' = [current EXCEPT ![w] = EmptyMap]
    /\ ret'     = [ret EXCEPT ![w] = ""]
    /\ err'     = [err EXCEPT ![w] = ""]
    /\ sync_success' = [sync_success EXCEPT ![w] = ""]
    /\ txnow'   = [txnow EXCEPT ![w] = 0]

\* update_job_result(db_url, job_id, p) with the local res being r: start the
\* call, continue at `next` when it returns
CallUpdate(w, r, p, next) ==
    /\ res'   = [res EXCEPT ![w] = r]
    /\ pc'    = [pc EXCEPT ![w] = "update_select"]
    /\ patch' = [patch EXCEPT ![w] = p]
    /\ ret'   = [ret EXCEPT ![w] = next]

\* continue at a stage executor or at Step D
Run(w, r, label) ==
    /\ res'   = [res EXCEPT ![w] = r]
    /\ pc'    = [pc EXCEPT ![w] = label]
    /\ patch' = [patch EXCEPT ![w] = EmptyMap]
    /\ ret'   = [ret EXCEPT ![w] = ""]

\* the test of Step C on the local res r
EnterC(w, r) ==
    IF NeedsSummarize(r)
    THEN CallUpdate(w, r, Summarizing, "summarize")
    ELSE Run(w, r, "step_d")

\* the test of Step B on the local res r
EnterB(w, r) ==
    IF NeedsTranscribe(r)
    THEN CallUpdate(w, r, Recognizing, "transcribe")
    ELSE EnterC(w, WithStoredSegments(r, transcripts))

\* the test of Step A on the local res r
EnterA(w, r) ==
    IF NeedsDownload(r, files)
    THEN CallUpdate(w, r, Downloading, "download")
    ELSE EnterB(w, r)

\* control reaches `label` of _job_worker
Goto(w, r, label) ==
    CASE label = "step_b" -> EnterB(w, r)
      [] label = "step_c" -> EnterC(w, r)
      [] OTHER            -> Run(w, r, label)

\* client: POST /jobs
CreateJob(u) ==
    /\ Len(jobs) < MaxJobs
    /\ jobs' = create_job(jobs, u)
    /\ UNCHANGED <<transcripts, summaries, files, clock, procs, chat, budget>>
    /\ UNCHANGED locals

\* claim_next_pending_job, first SELECT
ClaimSelect(w) ==
    /\ pc[w] = "claim"
    /\ budget > Cardinality(Recovering)
    /\ LET rid == SelectPending(jobs, Locked) IN
         IF rid # 0
         THEN /\ job_id' = [job_id EXCEPT ![w] = rid]
              /\ txnow'  = [txnow EXCEPT ![w] = clock + 1]
              /\ clock'  = clock + 1
              /\ budget' = budget - 1
              /\ pc'     = [pc EXCEPT ![w] = "claim_update"]
         ELSE /\ pc'     = [pc EXCEPT ![w] = "claim_recover"]
              /\ UNCHANGED <<job_id, txnow, clock, budget>>
    /\ UNCHANGED <<jobs, transcripts, summaries, files, procs, chat>>
    /\ UNCHANGED <<res, patch, current, ret, err, sync_success>>

\* claim_next_pending_job, UPDATE of the locked row, commit, return
ClaimUpdate(w) ==
    /\ pc[w] = "claim_update"
    /\ jobs'  = MarkRunning(jobs, job_id[w], txnow[w])
    /\ txnow' = [txnow EXCEPT ![w] = 0]
    /\ pc'    = [pc EXCEPT ![w] = "get_job"]
    /\ UNCHANGED <<transcripts, summaries, files, clock, procs, chat, budget>>
    /\ UNCHANGED <<job_id, res, patch, current, ret, err, sync_success>>

\* claim_next_pending_job, second SELECT (recovery), return; on None the
\* worker sleeps and calls again
ClaimRecover(w) ==
    /\ pc[w] = "claim_recover"
    /\ IF SelectRunning(jobs) = {}
       THEN /\ pc' = [pc EXCEPT ![w] = "claim"]
            /\ UNCHANGED <<jobs, job_id, budget>>
       ELSE \E rid2 \in SelectRunning(jobs) :
            /\ jobs'   = RecoverRow(jobs, rid2, clock)
            /\ job_id' = [job_id EXCEPT ![w] = rid2]
            /\ pc'     = [pc EXCEPT ![w] = "get_job"]
            /\ budget' = budget - 1
    /\ UNCHANGED <<transcripts, summaries, files, clock, procs, chat>>
    /\ UNCHANGED <<res, patch, current, ret, err, sync_success, txnow>>

\* info = get_job(...); res = dict(info.get("result") or {}); Step A test
GetJob(w) ==
    /\ pc[w] = "get_job"
    /\ EnterA(w, get_job_result(jobs, job_id[w]))
    /\ UNCHANGED store
    /\ UNCHANGED <<procs, chat, budget, job_id, current, err, sync_success, txnow>>

\* update_job_result, SELECT
UpdateSelect(w) ==
    /\ pc[w] = "update_select"
    /\ current' = [current EXCEPT ![w] = UpdateCurrent(jobs, job_id[w])]
    /\ pc'      = [pc EXCEPT ![w] = "update_write"]
    /\ UNCHANGED store
    /\ UNCHANGED <<procs, chat, budget, job_id, res, patch, ret, err, sync_success, txnow>>

\* update_job_result, UPDATE, commit, return to _job_worker
UpdateWrite(w) ==
    /\ pc[w] = "update_write"
    /\ jobs'    = UpdateRow(jobs, job_id[w], current[w], patch[w], "")
    /\ current' = [current EXCEPT ![w] = EmptyMap]
    /\ Goto(w, res[w], ret[w])
    /\ UNCHANGED <<transcripts, summaries, files, clock, procs, chat, budget>>
    /\ UNCHANGED <<job_id, err, sync_success, txnow>>

\* an exception reaches the handler around the whole job
Raise(w, text) ==
    /\ err' = [err EXCEPT ![w] = text]
    /\ pc'  = [pc EXCEPT ![w] = "failed"]
    /\ UNCHANGED <<res, patch, ret>>

\* Step A: download_bilibili, res.update, checkpoint
Download(w) ==
    /\ pc[w] = "download"
    /\ \E outcome \in DownloadOutcomes :
         LET u == jobs[job_id[w]].url IN
         CASE outcome = "ok" ->
                /\ files' = files \cup {MediaPath(u)}
                /\ CallUpdate(w, DictUpdate(res[w], Downloaded(u)), Downloaded(u), "step_b")
                /\ UNCHANGED err
           [] outcome = "empty" ->
                /\ Raise(w, DownloadEmpty)
                /\ UNCHANGED files
           [] outcome = "raise" ->
                /\ Raise(w, DownloadError)
                /\ UNCHANGED files
    /\ UNCHANGED <<jobs, transcripts, summaries, clock, procs, chat, budget>>
    /\ UNCHANGED <<job_id, current, sync_success, txnow>>

\* Step B: asr_process, save_transcript, res.update, checkpoint
Transcribe(w) ==
    /\ pc[w] = "transcribe"
    /\ \E outcome \in TranscribeOutcomes :
         CASE outcome = "ok" ->
                LET segs == AsrOutput(res[w].media_path)
                    tid  == Len(transcripts) + 1 IN
                /\ transcripts' = save_transcript(transcripts, res[w].media_path, segs)
                /\ CallUpdate(w, DictUpdate(res[w], RecognizedRes(tid, segs)),
                              Recognized(tid), "step_c")
                /\ UNCHANGED err
           [] outcome = "raise" ->
                /\ Raise(w, AsrError)
                /\ UNCHANGED transcripts
    /\ UNCHANGED <<jobs, summaries, files, clock, procs, chat, budget>>
    /\ UNCHANGED <<job_id, current, sync_success, txnow>>

\* Step C, except Exception as e: the failure is written to res and to the
\* store, and the job goes on to Step D
SummarizeRaiseFatal(w) == Raise(w, SummarizeError)
SummarizeRaise(w) ==
    /\ err' = [err EXCEPT ![w] = SummarizeError]
    /\ CallUpdate(w, DictUpdate(res[w], SummaryFailed), SummaryFailed, "step_d")

\* Step C: summarize_segments, save_summaries, res.update, checkpoint
Summarize(w) ==
    /\ pc[w] = "summarize"
    /\ \E outcome \in SummarizeOutcomes :
         CASE outcome = "ok" ->
                LET sums == SummaryOutput(Segs(res[w]))
                    sid  == Len(summaries) + 1 IN
                /\ summaries' = save_summaries(summaries, res[w].transcript_id, sums)
                /\ CallUpdate(w, DictUpdate(res[w], Summarized(sums, sid)),
                              Summarized(sums, sid), "step_d")
                /\ UNCHANGED err
           [] outcome = "noapi" ->
                /\ CallUpdate(w, DictUpdate(res[w], SummarySkipped), SummarySkipped, "step_d")
                /\ UNCHANGED <<summaries, err>>
           [] outcome = "raise" ->
                /\ SummarizeRaise(w)
                /\ UNCHANGED summaries
    /\ UNCHANGED <<jobs, transcripts, files, clock, procs, chat, budget>>
    /\ UNCHANGED <<job_id, current, sync_success, txnow>>

\* Step D, except Exception as e: the failure is written to res and the job
\* goes on to Step E
SyncRaiseFatal(w) == Raise(w, SyncErrorText)
SyncRaise(w) ==
    /\ err' = [err EXCEPT ![w] = SyncErrorText]
    /\ res' = [res EXCEPT ![w] = DictUpdate(@, SyncError)]
    /\ pc'  = [pc EXCEPT ![w] = "step_e"]
    /\ UNCHANGED <<patch, ret>>

\* Step D: sync_transcript_to_vector_db when res has transcript_id and
\* summaries
StepD(w) ==
    /\ pc[w] = "step_d"
    /\ IF NeedsSync(res[w])
       THEN \E outcome \in SyncOutcomes :
              CASE outcome = "raise" ->
                     /\ SyncRaise(w)
                     /\ UNCHANGED sync_success
                [] OTHER ->
                     /\ sync_success' = [sync_success EXCEPT ![w] = outcome]
                     /\ res' = [res EXCEPT ![w] = AfterSync(@, outcome)]
                     /\ pc'  = [pc EXCEPT ![w] = "step_e"]
                     /\ UNCHANGED <<patch, ret, err>>
       ELSE /\ pc' = [pc EXCEPT ![w] = "step_e"]
            /\ UNCHANGED <<res, patch, ret, err, sync_success>>
    /\ UNCHANGED store
    /\ UNCHANGED <<procs, chat, budget, job_id, current, txnow>>

\* Step E: res.update, finish_job_success(db_url, job_id, res)
StepE(w) ==
    /\ pc[w] = "step_e"
    /\ jobs'  = finish_job_success(jobs, job_id[w], DictUpdate(res[w], Finished), clock + 1)
    /\ clock' = clock + 1
    /\ Idle(w)
    /\ UNCHANGED <<transcripts, summaries, files, procs, chat, budget>>

\* except Exception as e: finish_job_failed(db_url, job_id, str(e))
Failed(w) ==
    /\ pc[w] = "failed"
    /\ jobs'  = finish_job_failed(jobs, job_id[w], err[w], clock + 1)
    /\ clock' = clock + 1
    /\ Idle(w)
    /\ UNCHANGED <<transcripts, summaries, files, procs, chat, budget>>

\* the worker's process dies and is started again: every local is lost, the
\* loop starts over.  (A crash inside claim_next_pending_job rolls its
\* transaction back and leaves the store as a crash before the call does.)
Crash(w) ==
    /\ pc[w] \notin {"claim", "claim_update", "claim_recover"}
    /\ Idle(w)
    /\ UNCHANGED store
    /\ UNCHANGED <<procs, chat, budget>>

\* ----------------------------------------------------------- specification
InitWith(ps, n) ==
    /\ jobs = <<>>
    /\ transcripts = <<>>
    /\ summaries = <<>>
    /\ files = {}
    /\ clock = 0
    /\ procs = ps
    /\ budget = n
    /\ pc = [w \in Workers |-> "claim"]
    /\ job_id = [w \in Workers |-> 0]
    /\ res = [w \in Workers |-> EmptyMap]
    /\ patch = [w \in Workers |-> EmptyMap]
    /\ current = [w \in Workers |-> EmptyMap]
    /\ ret = [w \in Workers |-> ""]
    /\ err = [w \in Workers |-> ""]
    /\ sync_success = [w \in Workers |-> ""]
    /\ txnow = [w \in Workers |-> 0]
    /\ chat_history = <<>>
    /\ reqs = <<>>
    /\ inserts = {}
    /\ fetched = <<>>
    /\ formatted = <<>>
    /\ collection = {}
    /\ stored = <<>>

\* several processes run the worker loop against the shared store
Init == InitWith(Workers, MaxClaims)
\* one process runs the worker loop
InitSingle == InitWith({"w1"}, MaxClaimsSingle)

Next ==
    \/ \E u \in Urls : CreateJob(u)
    \/ \E w \in procs : ClaimSelect(w)
    \/ \E w \in procs : ClaimUpdate(w)
    \/ \E w \in procs : ClaimRecover(w)
    \/ \E w \in procs : GetJob(w)
    \/ \E w \in procs : UpdateSelect(w)
    \/ \E w \in procs : UpdateWrite(w)
    \/ \E w \in procs : Download(w)
    \/ \E w \in procs : Transcribe(w)
    \/ \E w \in procs : Summarize(w)
    \/ \E w \in procs : StepD(w)
    \/ \E w \in procs : StepE(w)
    \/ \E w \in procs : Failed(w)
    \/ \E w \in procs : Crash(w)

Spec == Init /\ [][Next]_vars
SpecSingle == InitSingle /\ [][Next]_vars

\* A client of the store calls update_job_result(db_url, id, p, status) and
\* nothing interleaves with the call ("": status=None).
Patches  == {Downloading, Downloaded("u1"), Recognized(1)}
Statuses == {"", "failed"}

ApiUpdateJobResult(id, p, status) ==
    /\ jobs' = update_job_result(jobs, id, p, status)
    /\ UNCHANGED <<transcripts, summaries, files, clock, procs, chat, budget>>
    /\ UNCHANGED locals

\* no worker runs: create_job and update_job_result calls only
InitStore == InitWith({}, 0)

NextStore ==
    \/ \E u \in Urls : CreateJob(u)
    \/ \E id \in 1..MaxJobs : \E p \in Patches : \E status \in Statuses :
         ApiUpdateJobResult(id, p, status)

SpecStore == InitStore /\ [][NextStore]_vars

\* The store is unavailable while a worker is in claim_next_pending_job:
\* psycopg2.connect or a statement raises, the transaction (if any) is rolled
\* back and its row lock released.  The call is made outside the try block
\* of _job_worker, so the exception leaves the while loop and the worker
\* thread ends ("dead"); only a restart of the process (Crash) starts a new
\* one.
StoreUnavailable == "store unavailable"

ClaimFail(w) ==
    /\ pc[w] \in {"claim", "claim_update"}
    /\ pc'     = [pc EXCEPT ![w] = "dead"]
    /\ err'    = [err EXCEPT ![w] = StoreUnavailable]
    /\ job_id' = [job_id EXCEPT ![w] = 0]
    /\ txnow'  = [txnow EXCEPT ![w] = 0]
    /\ UNCHANGED store
    /\ UNCHANGED <<procs, chat, budget, res, patch, current, ret, sync_success>>

\* one worker, and a store that may be unavailable when the worker claims
NextOutage ==
    \/ Next
    \/ \E w \in procs : ClaimFail(w)

SpecOutage == InitSingle /\ [][NextOutage]_vars

\* A run in which the worker loop keeps running: the store is available,
\* every call returns or raises, the loop's thread takes its next step
\* (weak fairness of the worker's step), and the process is restarted at
\* most MaxCrashes times.  The claim budget covers one claim per job and one
\* per restart, so it never stops the loop.
MaxClaimsLive == MaxJobs + MaxCrashes

Outstanding == MaxJobs - Cardinality({i \in DOMAIN jobs : jobs[i].status \in {"success", "failed"}})

CrashBounded(w) ==
    /\ budget >= Outstanding
    /\ Crash(w)

LoopStep(w) ==
    \/ ClaimSelect(w) \/ ClaimUpdate(w) \/ ClaimRecover(w) \/ GetJob(w)
    \/ UpdateSelect(w) \/ UpdateWrite(w) \/ Download(w) \/ Transcribe(w)
    \/ Summarize(w) \/ StepD(w) \/ StepE(w) \/ Failed(w)

InitLive == InitWith({"w1"}, MaxClaimsLive)

NextLive ==
    \/ \E u \in Urls : CreateJob(u)
    \/ \E w \in procs : ClaimSelect(w)
    \/ \E w \in procs : ClaimUpdate(w)
    \/ \E w \in procs : ClaimRecover(w)
    \/ \E w \in procs : GetJob(w)
    \/ \E w \in procs : UpdateSelect(w)
    \/ \E w \in procs : UpdateWrite(w)
    \/ \E w \in procs : Download(w)
    \/ \E w \in procs : Transcribe(w)
    \/ \E w \in procs : Summarize(w)
    \/ \E w \in procs : StepD(w)
    \/ \E w \in procs : StepE(w)
    \/ \E w \in procs : Failed(w)
    \/ \E w \in procs : CrashBounded(w)

SpecLive == InitLive /\ [][NextLive]_vars /\ WF_vars(\E w \in procs : LoopStep(w))

\* ------------------------------------------------------ session history
\* created_at of a row is now() of the transaction that inserts it, which is
\* the time its INSERT starts; the row is in the table once the transaction
\* commits.  Timestamps of different transactions are taken to differ.
Sessions == {"s1", "s2"}
\* rows direct callers insert in a run
MaxTurns == 3
\* the limit chat_with_knowledge_base passes to get_chat_history
HistoryWindow == 20
Limits == {1, 2, HistoryWindow}

\* the rows of a session
SessionRows(h, sid) == {i \in DOMAIN h : h[i].session_id = sid}

\* ORDER BY created_at ASC
RECURSIVE OrderByCreatedAt(_, _)
OrderByCreatedAt(h, S) ==
    IF S = {}
    THEN <<>>
    ELSE LET i == CHOOSE x \in S : \A y \in S : h[x].created_at <= h[y].created_at
         IN  <<h[i]>> \o OrderByCreatedAt(h, S \ {i})

\* rows in the order of their ids
RECURSIVE OrderById(_, _)
OrderById(h, S) ==
    IF S = {}
    THEN <<>>
    ELSE LET i == Min(S) IN <<h[i]>> \o OrderById(h, S \ {i})

\* LIMIT n
Limit(rows, n) == SubSeq(rows, 1, Min({n, Len(rows)}))
\* the n last rows
Latest(rows, n) == SubSeq(rows, Max({1, Len(rows) - n + 1}), Len(rows))

get_chat_historyById(h, sid, limit) ==
    Limit(OrderById(h, SessionRows(h, sid)), limit)
get_chat_history(h, sid, limit) ==
    Limit(OrderByCreatedAt(h, SessionRows(h, sid)), limit)

\* ------------------------------------------------------- chat orchestrators
\* Two endpoints answer chat requests: qdrant_chat (routers/qdrant_rag.py)
\* and api_chat -> chat_with_knowledge_base (knowledge_service.py).
Orchestrators == {"qdrant", "knowledge"}
\* ("": the empty query)
Queries == {"", "q1"}
\* ChatRequest.n_results values a client may send
TopKs == {1, 2}
\* session ids a client may send ("": none)
SessionIds == {"", "s1"}
\* str(uuid.uuid4()) of request r
Uuids == <<"uuid-1", "uuid-2">>
UuidFixed(r) == Uuids[1]
Uuid(r) == Uuids[r]

\* what the vector search returns, best score first
\* (times in seconds, score in hundredths, summary "": none)
HitA == [text |-> "t1", score |-> 90, title |-> "v1", language |-> "zh",
         start_time |-> 59, end_time |-> 3725, summary |-> "p1"]
HitB == [text |-> "t2", score |-> 80, title |-> "v2", language |-> "zh",
         start_time |-> 0, end_time |-> 60, summary |-> ""]
\* same score as HitB
HitC == [text |-> "t3", score |-> 80, title |-> "v0", language |-> "en",
         start_time |-> 3600, end_time |-> 3661, summary |-> "p3"]
HitLists == {<<>>, <<HitA>>, <<HitC, HitB>>}
\* texts the language model may return
Completions == {"a1", "a2"}

\* ------------------------------------------------------- context formatter
\* A text is the sequence of the parts that are joined with newlines; a
\* part is a sequence of lines, a line the tuple of its label and the values
\* formatted into it.
SecondsPerHour == 3600
SecondsPerMinute == 60

\* format_timestamp: HH:MM:SS
format_timestamp(seconds) ==
    <<seconds \div SecondsPerHour,
      (seconds % SecondsPerHour) \div SecondsPerMinute,
      seconds % SecondsPerMinute>>

ContextHeader == <<"header">>
CitationInstruction == <<"cite the source numbers">>

\* entry_parts of the i-th result
ContextEntry(i, result, include_summaries) ==
    << <<"source", i>>,
       <<"video", result.title, result.language>>,
       <<"time", format_timestamp(result.start_time), format_timestamp(result.end_time)>>,
       <<"score", result.score>> >>
    \o (IF include_summaries /\ result.summary # ""
        THEN << <<"summary", result.summary>> >> ELSE <<>>)
    \o << <<"content", result.text>> >>

Reverse(seq) == [i \in 1..Len(seq) |-> seq[Len(seq) + 1 - i]]

format_rag_contextReversed(results, include_summaries) ==
    IF results = <<>>
    THEN <<>>
    ELSE << <<ContextHeader>> >>
         \o [i \in 1..Len(results) |-> ContextEntry(i, Reverse(results)[i], include_summaries)]
         \o << <<CitationInstruction>> >>

format_rag_context(results, include_summaries) ==
    IF results = <<>>
    THEN <<>>
    ELSE << <<ContextHeader>> >>
         \o [i \in 1..Len(results) |-> ContextEntry(i, results[i], include_summaries)]
         \o << <<CitationInstruction>> >>

\* format_rag_system_prompt
format_rag_system_prompt(base_prompt, rag_context) ==
    IF rag_context = <<>> THEN <<base_prompt>> ELSE <<base_prompt, rag_context>>

\* direct calls of format_rag_context
MaxCalls == 2
FormatInputs == {<<>>, <<HitA>>, <<HitA, HitB>>, <<HitB, HitC>>, <<HitC, HitB>>}

FormatCall(results, include_summaries) ==
    /\ Len(formatted) < MaxCalls
    /\ formatted' = Append(formatted,
                           [results |-> results, include_summaries |-> include_summaries,
                            text |-> format_rag_context(results, include_summaries)])
    /\ UNCHANGED <<store, procs, budget>>
    /\ UNCHANGED locals
    /\ UNCHANGED <<chat_history, reqs, inserts, fetched, collection, stored>>

NextFormat ==
    \E results \in FormatInputs : \E include_summaries \in BOOLEAN :
        FormatCall(results, include_summaries)

InitFormat == InitWith({}, 0)

SpecFormat == InitFormat /\ [][NextFormat]_vars

FallbackQdrant    == "no relevant content found in the knowledge base"
FallbackKnowledge == "no relevant video content found"
Fallback(orch) == IF orch = "qdrant" THEN FallbackQdrant ELSE FallbackKnowledge
\* the answer chat_with_knowledge_base returns from its except branch
ErrorAnswer == "error during chat"

\* system prompts: the one written in qdrant_chat, the one written in
\* chat_with_knowledge_base, and the value of the system_prompt key of the
\* system_config table ("": no such row)
BasePromptQdrant == "qdrant base prompt"
DefaultPromptKnowledge == "built-in prompt"
ConfiguredPrompt == "configured prompt"
ConfigValues == {"", ConfiguredPrompt}
\* RAG_INCLUDE_SUMMARIES
RagIncludeSummaries == TRUE

\* references of the response
Reference(orch, h) ==
    IF orch = "qdrant"
    THEN [chunk_text |-> h.text, score |-> h.score, metadata |-> [video_title |-> h.title]]
    ELSE h
ReferencesReversed(orch, hits) == [i \in 1..Len(hits) |-> Reference(orch, Reverse(hits)[i])]
References(orch, hits) == [i \in 1..Len(hits) |-> Reference(orch, hits[i])]

\* rows written by save_chat_message (req: the request that wrote the row)
UserMetadata(q) ==
    IF q.orch = "qdrant" THEN EmptyMap ELSE [n_results |-> q.n_results]
AssistantMetadata(orch, refs) ==
    IF orch = "qdrant"
    THEN [references |-> refs]
    ELSE [references_count |-> Len(refs), references |-> refs]

AssistantTurn(r, q, now) ==
    [session_id |-> q.session_id, role |-> "assistant", content |-> q.answer[1],
     metadata |-> AssistantMetadata(q.orch, q.references), created_at |-> now, req |-> r]
UserTurnAsAssistant(r, q, now) == AssistantTurn(r, q, now)
UserTurn(r, q, now) ==
    [session_id |-> q.session_id, role |-> "user", content |-> q.query,
     metadata |-> UserMetadata(q), created_at |-> now, req |-> r]

save_chat_message(h, turn) == Append(h, turn)

\* the messages of the completion request
Message(role, content) == [role |-> role, content |-> content]
\* history records as chat_with_knowledge_base converts them
HistoryMessages(rows) == [i \in 1..Len(rows) |-> Message(rows[i].role, <<rows[i].content>>)]
\* chat_with_rag: context_text and user_message
KnowledgeContext(docs) == [i \in 1..Len(docs) |-> <<"fragment", i, docs[i].title, docs[i].text>>]
KnowledgeUserMessage(q) == <<"reference", KnowledgeContext(q.hits), "question", q.query>>

Messages(q) ==
    IF q.orch = "qdrant"
    THEN <<Message("system", format_rag_system_prompt(BasePromptQdrant,
                                 format_rag_context(q.hits, RagIncludeSummaries))),
           Message("user", <<q.query>>)>>
    ELSE <<Message("system", <<q.system_prompt>>),
           Message("user", KnowledgeUserMessage(q))>>

\* the JSON body posted to /chat/completions: chat_with_knowledge_base
\* passes history=... to chat_with_rag, which has no such parameter and
\* hands it on in **kwargs to chat_with_openai, where payload.update(kwargs)
\* makes it a key of the body
Payload(q) ==
    IF q.orch = "qdrant"
    THEN [messages |-> Messages(q)]
    ELSE [messages |-> Messages(q), history |-> HistoryMessages(q.history)]

\* the response of a request that got its answer
OkResponse(q) ==
    [status |-> 200, answer |-> q.answer[1], references |-> q.references,
     query |-> q.query, session_id |-> q.session_id]
ErrorResponse(code) == [status |-> code]

\* session_id = payload.session_id or str(uuid.uuid4())
NewSessionId(r, sid) == IF sid # "" THEN sid ELSE Uuid(r)

NewRequest(r, orch, query, sid, n, config) ==
    [orch |-> orch, query |-> query, sent_session_id |-> sid,
     session_id |-> NewSessionId(r, sid), n_results |-> n, config |-> config,
     pc |-> IF orch = "qdrant" THEN "search" ELSE "prepare",
     system_prompt |-> "", history |-> <<>>,
     hits |-> <<>>, search_error |-> FALSE, calls |-> <<>>, payload |-> Null,
     answer |-> Null, references |-> <<>>,
     failure |-> "", logged |-> {}, response |-> Null]

Set(r, q) == reqs' = [reqs EXCEPT ![r] = q]
\* a chat request touches neither the job tables nor the workers
JobTablesUnchanged ==
    /\ UNCHANGED <<jobs, transcripts, summaries, files, procs, budget>>
    /\ UNCHANGED locals
    /\ UNCHANGED <<inserts, fetched, formatted, collection, stored>>
JobsUnchanged == JobTablesUnchanged /\ UNCHANGED clock

\* client: POST /api/qdrant/chat or POST /api/knowledge/chat; the
\* system_config table does not change during the run
ChatRequest(orch, query, sid, n, config) ==
    /\ Len(reqs) < MaxRequests
    /\ \A r \in DOMAIN reqs : reqs[r].config = config
    /\ reqs' = Append(reqs, NewRequest(Len(reqs) + 1, orch, query, sid, n, config))
    /\ UNCHANGED chat_history
    /\ JobsUnchanged

\* the LLM API is not configured: api_chat raises before it calls
\* chat_with_knowledge_base, qdrant_chat raises after the search
ConfigMissing(r) ==
    /\ reqs[r].pc = IF reqs[r].orch = "qdrant" THEN "complete" ELSE "prepare"
    /\ Set(r, [reqs[r] EXCEPT !.pc = "done", !.failure = "config",
                              !.response = <<ErrorResponse(500)>>])
    /\ UNCHANGED chat_history
    /\ JobsUnchanged

\* chat_with_knowledge_base: system_prompt = get_config(...) or the built-in
\* one; history = get_chat_history(db_url, session_id, limit=20)
Prepare(r) ==
    /\ reqs[r].pc = "prepare"
    /\ Set(r, [reqs[r] EXCEPT
                 !.pc = "search",
                 !.system_prompt = IF reqs[r].config # "" THEN reqs[r].config
                                   ELSE DefaultPromptKnowledge,
                 !.history = get_chat_history(chat_history, reqs[r].session_id,
                                              HistoryWindow)])
    /\ UNCHANGED chat_history
    /\ JobsUnchanged

\* qdrant_chat: embedding_service.embed raises, the request ends with an
\* error response
SearchFail(r) ==
    /\ reqs[r].pc = "search"
    /\ reqs[r].orch = "qdrant"
    /\ Set(r, [reqs[r] EXCEPT !.pc = "done", !.failure = "embed",
                              !.calls = @ \o <<"embed">>,
                              !.response = <<ErrorResponse(500)>>])
    /\ UNCHANGED chat_history
    /\ JobsUnchanged

\* the request after its search returned hits (error: the search raised
\* inside search_similar or search_knowledge_base, which return [] then);
\* with no hit the answer is the fallback text
SearchedAlwaysComplete(q, hits, error) ==
    [q EXCEPT !.pc = "complete", !.hits = hits, !.search_error = error,
              !.calls = @ \o <<"embed", "search">>]
SearchedNoHistory(q, hits, error) ==
    IF hits = <<>>
    THEN [q EXCEPT !.pc = "respond", !.search_error = error,
                   !.calls = @ \o <<"embed", "search">>,
                   !.answer = <<Fallback(q.orch)>>, !.references = <<>>]
    ELSE [q EXCEPT !.pc = "complete", !.hits = hits,
                   !.calls = @ \o <<"embed", "search">>]
Searched(q, hits, error) ==
    IF hits = <<>>
    THEN [q EXCEPT !.pc = "save_user", !.search_error = error,
                   !.calls = @ \o <<"embed", "search">>,
                   !.answer = <<Fallback(q.orch)>>, !.references = <<>>]
    ELSE [q EXCEPT !.pc = "complete", !.hits = hits,
                   !.calls = @ \o <<"embed", "search">>]

\* the vector search returns at most n_results hits
Search(r, hits) ==
    /\ reqs[r].pc = "search"
    /\ Len(hits) <= reqs[r].n_results
    /\ Set(r, Searched(reqs[r], hits, FALSE))
    /\ UNCHANGED chat_history
    /\ JobsUnchanged

\* the vector search (or, in chat_with_knowledge_base, the embedding call
\* inside it) fails: the exception is caught and logged where it is raised
SearchError(r) ==
    /\ reqs[r].pc = "search"
    /\ Set(r, Searched(reqs[r], <<>>, TRUE))
    /\ UNCHANGED chat_history
    /\ JobsUnchanged

\* the completion request; when it raises qdrant_chat answers 500 and
\* chat_with_knowledge_base returns its error answer, both without history
CompleteFailureSaved(r, outcome, text) ==
    /\ reqs[r].pc = "complete"
    /\ Set(r, [reqs[r] EXCEPT !.payload = <<Payload(reqs[r])>>,
                              !.calls = @ \o <<"complete">>,
                              !.pc = "save_user",
                              !.failure = IF outcome = "ok" THEN "" ELSE "completion",
                              !.answer = <<IF outcome = "ok" THEN text ELSE ErrorAnswer>>,
                              !.references = IF outcome = "ok"
                                             THEN References(reqs[r].orch, reqs[r].hits)
                                             ELSE <<>>])
    /\ UNCHANGED chat_history
    /\ JobsUnchanged
Complete(r, outcome, text) ==
    /\ reqs[r].pc = "complete"
    /\ LET q == [reqs[r] EXCEPT !.payload = <<Payload(reqs[r])>>,
                                !.calls = @ \o <<"complete">>]
       IN Set(r, IF outcome = "ok"
              THEN [q EXCEPT !.pc = "save_user",
                             !.answer = <<text>>,
                             !.references = References(q.orch, q.hits)]
              ELSE IF q.orch = "qdrant"
              THEN [q EXCEPT !.pc = "done", !.failure = "completion",
                             !.response = <<ErrorResponse(500)>>]
              ELSE [q EXCEPT !.pc = "done", !.failure = "completion",
                       !.response = <<[status |-> 200, answer |-> ErrorAnswer,
                                       references |-> <<>>, query |-> q.query,
                                       session_id |-> q.session_id,
                                       error |-> "completion failed"]>>])
    /\ UNCHANGED chat_history
    /\ JobsUnchanged

\* a save_chat_message call raises: the except around both calls logs the
\* error, the second call is skipped
SaveFailFatal(r, role) ==
    /\ Set(r, [reqs[r] EXCEPT !.pc = "done", !.logged = @ \cup {role},
                              !.response = <<ErrorResponse(500)>>])
    /\ UNCHANGED <<chat_history, clock>>
SaveFail(r, role) ==
    /\ Set(r, [reqs[r] EXCEPT !.pc = "respond", !.logged = @ \cup {role}])
    /\ UNCHANGED <<chat_history, clock>>

\* save_chat_message(..., "user", query, ...)
SaveUser(r, ok) ==
    /\ reqs[r].pc = "save_user"
    /\ IF ok
       THEN /\ chat_history' = save_chat_message(chat_history, UserTurn(r, reqs[r], clock + 1))
            /\ clock' = clock + 1
            /\ Set(r, [reqs[r] EXCEPT !.pc = "save_assistant"])
       ELSE SaveFail(r, "user")
    /\ JobTablesUnchanged

\* save_chat_message(..., "assistant", answer, ...)
SaveAssistant(r, ok) ==
    /\ reqs[r].pc = "save_assistant"
    /\ IF ok
       THEN /\ chat_history' = save_chat_message(chat_history, AssistantTurn(r, reqs[r], clock + 1))
            /\ clock' = clock + 1
            /\ Set(r, [reqs[r] EXCEPT !.pc = "respond"])
       ELSE SaveFail(r, "assistant")
    /\ JobTablesUnchanged

\* return {"answer": ..., "references": ..., "query": ..., "session_id": ...}
Respond(r) ==
    /\ reqs[r].pc = "respond"
    /\ Set(r, [reqs[r] EXCEPT !.pc = "done", !.response = <<OkResponse(reqs[r])>>])
    /\ UNCHANGED chat_history
    /\ JobsUnchanged

\* no worker runs; requests are served concurrently
InitChat == InitWith({}, 0)

NextChat ==
    \/ \E orch \in Orchestrators : \E query \in Queries : \E sid \in SessionIds :
         \E n \in TopKs : \E config \in ConfigValues :
            ChatRequest(orch, query, sid, n, config)
    \/ \E r \in DOMAIN reqs : ConfigMissing(r)
    \/ \E r \in DOMAIN reqs : Prepare(r)
    \/ \E r \in DOMAIN reqs : SearchFail(r)
    \/ \E r \in DOMAIN reqs : \E hits \in HitLists : Search(r, hits)
    \/ \E r \in DOMAIN reqs : SearchError(r)
    \/ \E r \in DOMAIN reqs : \E outcome \in {"ok", "raise"} : \E text \in Completions :
         Complete(r, outcome, text)
    \/ \E r \in DOMAIN reqs : \E ok \in BOOLEAN : SaveUser(r, ok)
    \/ \E r \in DOMAIN reqs : \E ok \in BOOLEAN : SaveAssistant(r, ok)
    \/ \E r \in DOMAIN reqs : Respond(r)

SpecChat == InitChat /\ [][NextChat]_vars

\* ------------------------------------------------- session history clients
\* a client starts save_chat_message: the INSERT runs, the row gets now()
InsertBegin(sid, role) ==
    /\ clock < MaxTurns
    /\ clock' = clock + 1
    /\ inserts' = inserts \cup
           {[session_id |-> sid, role |-> role, content |-> "c",
             metadata |-> EmptyMap, created_at |-> clock + 1, req |-> 0]}
    /\ UNCHANGED <<jobs, transcripts, summaries, files, procs, budget>>
    /\ UNCHANGED locals
    /\ UNCHANGED <<chat_history, reqs, fetched, formatted, collection, stored>>

\* the transaction commits and save_chat_message returns
InsertCommit(row) ==
    /\ row \in inserts
    /\ chat_history' = save_chat_message(chat_history, row)
    /\ inserts' = inserts \ {row}
    /\ UNCHANGED <<store, procs, budget>>
    /\ UNCHANGED locals
    /\ UNCHANGED <<reqs, fetched, formatted, collection, stored>>

\* a client calls get_chat_history(db_url, sid, limit)
GetHistory(sid, limit) ==
    /\ fetched' = <<[session_id |-> sid, limit |-> limit,
                     rows |-> get_chat_history(chat_history, sid, limit)]>>
    /\ UNCHANGED <<store, procs, budget>>
    /\ UNCHANGED locals
    /\ UNCHANGED <<chat_history, reqs, inserts, formatted, collection, stored>>

NextHistory ==
    \/ \E sid \in Sessions : \E role \in {"user", "assistant"} : InsertBegin(sid, role)
    \/ \E row \in inserts : InsertCommit(row)
    \/ \E sid \in Sessions : \E limit \in Limits : GetHistory(sid, limit)

InitHistory == InitWith({}, 0)

SpecHistory == InitHistory /\ [][NextHistory]_vars

\* ------------------------------------------------------------ properties
\* the worker has a job from claim_next_pending_job and has neither finished
\* it nor died
Processing(w) == w \in procs /\ pc[w] \notin {"claim", "claim_update", "claim_recover"}

\* C1: each job is handed to exactly one worker at a time: no two workers
\* process the same job concurrently.
C1_ClaimExclusive ==
    \A v \in procs : \A w \in procs :
        (v # w /\ Processing(v) /\ Processing(w)) => job_id[v] # job_id[w]

StatusTransitions ==
    {<<"pending", "running">>, <<"running", "success">>, <<"running", "failed">>}

\* C2: in every step a job's status either stays as it is or goes
\* pending -> running, running -> success or running -> failed; a success or
\* failed job never gets another status.
C2_StatusTransitions ==
    [][\A i \in DOMAIN jobs :
         jobs'[i].status # jobs[i].status =>
             <<jobs[i].status, jobs'[i].status>> \in StatusTransitions]_vars

\* the result _job_worker builds for job i when nothing interrupts it and the
\* stage executors return what they returned to the runs that made job i's
\* stored result
UninterruptedResult(js, ts, i) ==
    LET r == StoredResult(js, i)
        a == DictUpdate(EmptyMap, Downloaded(js[i].url))
        b == DictUpdate(a, RecognizedRes(r.transcript_id, ts[r.transcript_id].segments))
        c == IF "summaries" \in DOMAIN r
             THEN DictUpdate(b, Summarized(r.summaries, r.summary_id)) ELSE b
        d == DictUpdate(c, [k \in {"vector_synced", "vector_sync_error"} \cap DOMAIN r |-> r[k]])
    IN  DictUpdate(d, Finished)

\* C3: with one worker, a job that ends with success, resumed after a crash
\* or not, has the final result of the uninterrupted run: same keys, same
\* values, the segment list as the recogniser returned it.
C3_ResumeSameResult ==
    \A i \in DOMAIN jobs :
        jobs[i].status = "success" =>
            StoredResult(jobs, i) = UninterruptedResult(jobs, transcripts, i)

\* C4: a completed update_job_result call never removes a key from the
\* job's stored result, whatever other calls interleave with it.
C4_KeysNeverShrink ==
    [][\A w \in procs :
         UpdateWrite(w) =>
             Keys(StoredResult(jobs, job_id[w])) \subseteq Keys(StoredResult(jobs', job_id[w]))]_vars

\* C5: one update_job_result call leaves result = previous result with the
\* patch's fields added or overwritten and the other fields kept (NULL counts
\* as empty); status changes only when one is given, no other column of the
\* row and no other row changes.
C5_UpdateMerges ==
    [][\A id \in DOMAIN jobs : \A p \in Patches : \A status \in Statuses :
         ApiUpdateJobResult(id, p, status) =>
             LET prev == IF jobs[id].result = NoResult THEN EmptyMap ELSE jobs[id].result[1]
                 new  == jobs'[id].result[1]
             IN  /\ jobs'[id].result # NoResult
                 /\ Keys(new) = Keys(prev) \cup Keys(p)
                 /\ \A k \in Keys(p) : new[k] = p[k]
                 /\ \A k \in Keys(prev) \ Keys(p) : k \in Keys(new) /\ new[k] = prev[k]
                 /\ jobs'[id].status = (IF status = "" THEN jobs[id].status ELSE status)
                 /\ jobs'[id].url = jobs[id].url
                 /\ jobs'[id].started_at = jobs[id].started_at
                 /\ jobs'[id].finished_at = jobs[id].finished_at
                 /\ jobs'[id].error = jobs[id].error
                 /\ DOMAIN jobs' = DOMAIN jobs
                 /\ \A i \in DOMAIN jobs \ {id} : jobs'[i] = jobs[i]]_vars

\* C5 case: a job whose result keeps the media fields of an earlier patch
\* under the progress of a later one that also gave a status
C5_Witness ==
    \E i \in DOMAIN jobs :
        /\ jobs[i].status = "failed"
        /\ jobs[i].result # NoResult
        /\ Keys(Downloaded("u1")) \subseteq Keys(jobs[i].result[1])
        /\ "transcript_id" \in Keys(jobs[i].result[1])
        /\ jobs[i].result[1].progress = Downloading.progress

\* errors after which _job_worker gives the job up
FatalErrors == {DownloadEmpty, DownloadError, AsrError}
StageErrors == FatalErrors \cup {SummarizeError}

C7_IndexFailureNonFatal ==
    [][\A w \in procs :
         /\ (pc[w] = "step_d" /\ pc'[w] \notin {"step_d", "claim"}) => pc'[w] = "step_e"
         /\ sync_success'[w] = "false" =>
                /\ pc'[w] = "step_e"
                /\ "vector_synced" \in DOMAIN res'[w] /\ res'[w].vector_synced = FALSE
         /\ err'[w] = SyncErrorText =>
                /\ pc'[w] = "step_e"
                /\ "vector_synced" \in DOMAIN res'[w] /\ res'[w].vector_synced = FALSE
                /\ "vector_sync_error" \in DOMAIN res'[w]
                /\ res'[w].vector_sync_error = SyncErrorText
         /\ StepE(w) =>
                LET j == job_id[w]
                    final == StoredResult(jobs', j)
                IN  /\ jobs'[j].status = "success"
                    /\ jobs'[j].error = jobs[j].error
                    /\ \A k \in {"vector_synced", "vector_sync_error"} :
                           /\ k \in Keys(final) <=> k \in Keys(res[w])
                           /\ k \in Keys(res[w]) => final[k] = res[w][k]]_vars

\* C7 case: two success jobs with no error, one whose sync returned False and
\* one whose sync raised
C7_Witness ==
    \E i \in DOMAIN jobs : \E k \in DOMAIN jobs :
        /\ jobs[i].status = "success" /\ jobs[i].error = Null
        /\ "vector_synced" \in Keys(StoredResult(jobs, i))
        /\ StoredResult(jobs, i).vector_synced = FALSE
        /\ "vector_sync_error" \notin Keys(StoredResult(jobs, i))
        /\ jobs[k].status = "success" /\ jobs[k].error = Null
        /\ "vector_sync_error" \in Keys(StoredResult(jobs, k))
        /\ StoredResult(jobs, k).vector_synced = FALSE

\* the checkpoint of a stage is in the stored result r
FetchCheckpoint(r)      == "media_path" \in Keys(r)
TranscribeCheckpoint(r) == "transcript_id" \in Keys(r)
SummarizeCheckpoint(r)  == "summaries" \in Keys(r)

\* C8 (as stated): with one worker, no stage executor runs for a job whose
\* stored result holds the checkpoint of that stage or of a later one (the
\* download runs again only when the recorded file is gone).
C8_NoStageRepeated ==
    \A w \in procs :
        LET r == StoredResult(jobs, job_id[w]) IN
        /\ pc[w] = "download" =>
               /\ FetchCheckpoint(r) => r.media_path \notin files
               /\ ~FetchCheckpoint(r) => ~TranscribeCheckpoint(r) /\ ~SummarizeCheckpoint(r)
        /\ pc[w] = "transcribe" => ~TranscribeCheckpoint(r) /\ ~SummarizeCheckpoint(r)
        /\ pc[w] = "summarize" => ~SummarizeCheckpoint(r)

\* C8 (amended): as above for Fetch and Transcribe; the summariser runs only
\* for a job whose stored result has no summaries or an empty summaries list.
C8_NoStageRepeatedUnlessEmpty ==
    \A w \in procs :
        LET r == StoredResult(jobs, job_id[w]) IN
        /\ pc[w] = "download" =>
               /\ FetchCheckpoint(r) => r.media_path \notin files
               /\ ~FetchCheckpoint(r) => ~TranscribeCheckpoint(r) /\ ~SummarizeCheckpoint(r)
        /\ pc[w] = "transcribe" => ~TranscribeCheckpoint(r) /\ ~SummarizeCheckpoint(r)
        /\ pc[w] = "summarize" => ~SummarizeCheckpoint(r) \/ r.summaries = <<>>

\* C8 case: the only job was handed out twice, and the second run stands at
\* Step D with res read from the store, no stage executor having run twice
C8_Witness ==
    \E w \in procs :
        /\ pc[w] = "step_d"
        /\ Len(jobs) = 1 /\ budget < MaxClaimsSingle - 1
        /\ Len(transcripts) = 1 /\ Len(summaries) = 1
        /\ SummarizeCheckpoint(StoredResult(jobs, job_id[w]))
        /\ res[w] = WithStoredSegments(StoredResult(jobs, job_id[w]), transcripts)

\* C9: a claim that finds a pending row not locked by another claim selects
\* the one with the smallest id and changes nothing yet; its UPDATE sets that
\* row, pending until then, to running with started_at set, changes no other
\* field and no other row, and the call returns that row.
C9_ClaimsOldestPending ==
    [][\A w \in procs :
         /\ (pc[w] = "claim" /\ pc'[w] # "claim" /\ PendingUnlocked(jobs, Locked) # {}) =>
                /\ pc'[w] = "claim_update"
                /\ job_id'[w] \in PendingUnlocked(jobs, Locked)
                /\ \A i \in PendingUnlocked(jobs, Locked) : job_id'[w] <= i
                /\ jobs' = jobs
         /\ (pc[w] = "claim_update" /\ pc'[w] # "claim_update") =>
                LET rid == job_id[w] IN
                /\ pc'[w] = "get_job" /\ job_id'[w] = rid
                /\ jobs[rid].status = "pending"
                /\ jobs'[rid].status = "running"
                /\ jobs'[rid].started_at # 0
                /\ jobs'[rid].url = jobs[rid].url
                /\ jobs'[rid].finished_at = jobs[rid].finished_at
                /\ jobs'[rid].result = jobs[rid].result
                /\ jobs'[rid].error = jobs[rid].error
                /\ DOMAIN jobs' = DOMAIN jobs
                /\ \A i \in DOMAIN jobs \ {rid} : jobs'[i] = jobs[i]]_vars

\* C9 case: one worker holds the lock on job 1, still pending, and another
\* has claimed job 2, now running
C9_Witness ==
    \E v \in procs : \E w \in procs :
        /\ pc[v] = "claim_update" /\ job_id[v] = 1 /\ jobs[1].status = "pending"
        /\ pc[w] = "get_job" /\ job_id[w] = 2
        /\ jobs[2].status = "running" /\ jobs[2].started_at # 0

\* C10: the recovery SELECT runs only after the pending SELECT found no row;
\* it changes no row; the row it returns is running with finished_at unset
\* and has the earliest started_at of these; it returns none only when there
\* is no such row.
C10_RecoveryReturnsOldestRunning ==
    [][\A w \in procs :
         /\ (pc[w] = "claim" /\ pc'[w] = "claim_recover") =>
                PendingUnlocked(jobs, Locked) = {} /\ jobs' = jobs
         /\ (pc[w] = "claim_recover" /\ pc'[w] # "claim_recover") =>
                /\ jobs' = jobs
                /\ pc'[w] = "get_job" =>
                       /\ job_id'[w] \in Unfinished(jobs)
                       /\ \A k \in Unfinished(jobs) :
                              jobs[job_id'[w]].started_at <= jobs[k].started_at
                /\ pc'[w] # "get_job" =>
                       pc'[w] = "claim" /\ job_id'[w] = 0 /\ Unfinished(jobs) = {}]_vars

\* C10 case: two jobs are running and unfinished, and the worker has got the
\* one started first from the recovery branch
C10_Witness ==
    \E w \in procs :
        /\ pc[w] = "get_job" /\ job_id[w] = 1
        /\ Unfinished(jobs) = {1, 2}
        /\ jobs[1].started_at < jobs[2].started_at

Terminal == {"success", "failed"}

\* C12: finished_at is set exactly when status is success or failed, and
\* started_at is unset exactly when status is pending; a step changes
\* finished_at, or takes a job to success or failed, only by setting both
\* together.
C12_StampsFollowStatus ==
    /\ [](\A i \in DOMAIN jobs :
            /\ jobs[i].finished_at # 0 <=> jobs[i].status \in Terminal
            /\ jobs[i].started_at = 0 <=> jobs[i].status = "pending")
    /\ [][\A i \in DOMAIN jobs :
            (jobs'[i].finished_at # jobs[i].finished_at \/
             (jobs'[i].status # jobs[i].status /\ jobs'[i].status \in Terminal)) =>
                /\ jobs'[i].status \in Terminal
                /\ jobs'[i].finished_at # 0
                /\ \E w \in procs : job_id[w] = i /\ (StepE(w) \/ Failed(w))]_vars

\* C12 case: a failed job with finished_at set next to a running job with
\* started_at set and finished_at unset
C12_Witness ==
    \E i \in DOMAIN jobs : \E k \in DOMAIN jobs :
        /\ jobs[i].status = "failed" /\ jobs[i].finished_at # 0 /\ jobs[i].started_at # 0
        /\ jobs[k].status = "running" /\ jobs[k].finished_at = 0 /\ jobs[k].started_at # 0

\* C13: create_job adds one row under an id no row had, pending, with the
\* given url and started_at, finished_at, result and error unset, and leaves
\* every other row as it was.
C13_CreateJobFrame ==
    [][\A u \in Urls :
         CreateJob(u) =>
             /\ DOMAIN jobs' = DOMAIN jobs \cup {Len(jobs) + 1}
             /\ Len(jobs) + 1 \notin DOMAIN jobs
             /\ jobs'[Len(jobs) + 1] =
                    [url |-> u, status |-> "pending", started_at |-> 0,
                     finished_at |-> 0, result |-> NoResult, error |-> Null]
             /\ \A i \in DOMAIN jobs : jobs'[i] = jobs[i]
             /\ UNCHANGED <<transcripts, summaries, files>>]_vars

\* C13 case: a second job, just created, next to a job a worker has already
\* taken through its first checkpoints
C13_Witness ==
    /\ Len(jobs) = 2
    /\ jobs[2].status = "pending" /\ jobs[2].result = NoResult /\ jobs[2].started_at = 0
    /\ jobs[1].status = "running" /\ FetchCheckpoint(StoredResult(jobs, 1))

C17_FailedKeepsResult ==
    [][\A w \in procs :
         Failed(w) =>
             LET j == job_id[w] IN
             /\ jobs'[j].result = jobs[j].result
             /\ jobs'[j].url = jobs[j].url
             /\ jobs'[j].started_at = jobs[j].started_at
             /\ DOMAIN jobs' = DOMAIN jobs
             /\ \A i \in DOMAIN jobs \ {j} : jobs'[i] = jobs[i]
             /\ UNCHANGED <<transcripts, summaries, files>>]_vars

\* C17 case: a job failed by the recogniser that still holds the download
\* checkpoint
C17_Witness ==
    \E i \in DOMAIN jobs :
        /\ jobs[i].status = "failed" /\ jobs[i].error = <<AsrError>>
        /\ FetchCheckpoint(StoredResult(jobs, i))
        /\ StoredResult(jobs, i).media_path = MediaPath(jobs[i].url)

\* C14: a failed claim_next_pending_job leaves every job row as it was, and
\* the worker loop that called it is back at the head of its loop, from where
\* it calls claim_next_pending_job again.
C14_ClaimFailureSurvived ==
    [][\A w \in procs :
         ClaimFail(w) => jobs' = jobs /\ pc'[w] = "claim"]_vars

\* C16: with a worker loop that keeps running, every submitted job is
\* eventually claimed (leaves pending) and eventually ends as success or
\* failed, and a job left running by a crashed worker (running, no worker
\* processing it) is eventually processed by a worker again.
Abandoned(i) ==
    /\ i \in DOMAIN jobs
    /\ jobs[i].status = "running"
    /\ \A w \in procs : job_id[w] # i

C16_EveryJobFinishes ==
    \A i \in 1..MaxJobs :
        /\ (i \in DOMAIN jobs) ~> (i \in DOMAIN jobs /\ jobs[i].status # "pending")
        /\ (i \in DOMAIN jobs) ~> (i \in DOMAIN jobs /\ jobs[i].status \in Terminal)
        /\ Abandoned(i) ~> (\E w \in procs : Processing(w) /\ job_id[w] = i)

\* every job has ended and one of them was resumed after a restart
C16_Witness ==
    /\ Len(jobs) = MaxJobs
    /\ \A i \in DOMAIN jobs : jobs[i].status \in Terminal
    /\ budget < MaxClaimsLive - MaxJobs

\* the turns request r has appended, oldest first, and their roles
TurnsOf(r) == SelectSeq(chat_history, LAMBDA t : t.req = r)
RolesOf(r) == [i \in 1..Len(TurnsOf(r)) |-> TurnsOf(r)[i].role]
\* the request's retrieval returned no hit
ZeroHits(q) == q.hits = <<>> /\ q.answer # Null
Answered(q) == q.pc = "done" /\ q.answer # Null

\* C18: a request whose retrieval returned no hit answers with the fixed
\* fallback text and no references and has appended exactly two turns, a
\* user turn and an assistant turn.
C18_FallbackAppendsTwo ==
    \A r \in DOMAIN reqs :
        Answered(reqs[r]) /\ ZeroHits(reqs[r]) =>
            /\ reqs[r].response = <<[status |-> 200, answer |-> Fallback(reqs[r].orch),
                                    references |-> <<>>, query |-> reqs[r].query,
                                    session_id |-> reqs[r].session_id]>>
            /\ RolesOf(r) = <<"user", "assistant">>

\* C18 (amended): ... and has appended exactly two turns unless a history
\* write failed; then it has appended the turns written before the failure
\* (none, or the user turn alone).
C18_FallbackAppendsTwoUnlessWriteFails ==
    \A r \in DOMAIN reqs :
        Answered(reqs[r]) /\ ZeroHits(reqs[r]) =>
            /\ reqs[r].response = <<[status |-> 200, answer |-> Fallback(reqs[r].orch),
                                    references |-> <<>>, query |-> reqs[r].query,
                                    session_id |-> reqs[r].session_id]>>
            /\ RolesOf(r) = CASE reqs[r].logged = {} -> <<"user", "assistant">>
                              [] reqs[r].logged = {"user"} -> <<>>
                              [] OTHER -> <<"user">>

\* both orchestrators have answered a zero-hit request in a fresh session
\* and written its two turns
C18_Witness ==
    /\ Len(reqs) = 2
    /\ reqs[1].orch # reqs[2].orch
    /\ \A r \in DOMAIN reqs :
         /\ Answered(reqs[r]) /\ ZeroHits(reqs[r]) /\ reqs[r].logged = {}
         /\ reqs[r].session_id = Uuid(r)
         /\ Len(TurnsOf(r)) = 2

C20_WriteFailureKeepsResponse ==
    /\ [](\A r \in DOMAIN reqs :
            reqs[r].pc = "done" /\ reqs[r].logged # {} =>
                /\ reqs[r].answer # Null
                /\ reqs[r].response =
                     <<[status |-> 200, answer |-> reqs[r].answer[1],
                        references |-> reqs[r].references, query |-> reqs[r].query,
                        session_id |-> reqs[r].session_id]>>)
    /\ [][\A r \in DOMAIN reqs :
            reqs[r].pc \in {"save_user", "save_assistant", "respond"} =>
                /\ reqs'[r].answer = reqs[r].answer
                /\ reqs'[r].references = reqs[r].references
                /\ reqs'[r].session_id = reqs[r].session_id]_vars

\* one request lost its assistant turn, another both turns; both returned
\* their answer, one with references
C20_Witness ==
    /\ Len(reqs) = 2
    /\ \A r \in DOMAIN reqs : reqs[r].pc = "done" /\ reqs[r].response[1].status = 200
    /\ reqs[1].logged = {"assistant"} /\ RolesOf(1) = <<"user">>
    /\ reqs[1].response[1].references # <<>>
    /\ reqs[2].logged = {"user"} /\ RolesOf(2) = <<>>

C22_HistoryInInsertionOrder ==
    [][\A sid \in Sessions : \A limit \in Limits :
         GetHistory(sid, limit) =>
            LET rows == fetched'[1].rows
                all == {chat_history[i] : i \in SessionRows(chat_history, sid)}
            IN  /\ \A i \in DOMAIN rows : \A j \in DOMAIN rows :
                       i < j => rows[i].created_at < rows[j].created_at
                /\ {rows[i] : i \in DOMAIN rows} \subseteq all
                /\ Cardinality(all) <= limit => {rows[i] : i \in DOMAIN rows} = all]_vars

\* two rows of a session committed against their insertion order and were
\* returned in insertion order
C22_Witness ==
    /\ Len(chat_history) >= 2
    /\ chat_history[1].session_id = chat_history[2].session_id
    /\ chat_history[1].created_at > chat_history[2].created_at
    /\ fetched # <<>>
    /\ fetched[1].rows = <<chat_history[2], chat_history[1]>>

\* C23: when the session holds more than `limit` rows, get_chat_history
\* returns the `limit` latest of them.
C23_HistoryLatest ==
    [][\A sid \in Sessions : \A limit \in Limits :
         GetHistory(sid, limit) =>
            fetched'[1].rows =
                Latest(OrderByCreatedAt(chat_history, SessionRows(chat_history, sid)), limit)]_vars

\* C21: when the session has prior turns as the completion request is
\* sent, its message list is the system message, those turns in ascending
\* time order (at most the window), then the new user message.
C21_HistoryInMessages ==
    [][\A r \in DOMAIN reqs : \A outcome \in {"ok", "raise"} : \A text \in Completions :
         Complete(r, outcome, text) =>
            LET prior == HistoryMessages(get_chat_history(chat_history,
                                             reqs[r].session_id, HistoryWindow))
                msgs == reqs'[r].payload[1].messages
            IN  prior # <<>> =>
                   /\ Len(msgs) = Len(prior) + 2
                   /\ msgs[1].role = "system"
                   /\ SubSeq(msgs, 2, Len(prior) + 1) = prior
                   /\ msgs[Len(msgs)].role = "user"]_vars

\* C24: a request with an empty query calls neither the embedding service
\* nor the search nor the completion service, stores no turn and does not
\* get a normal response.
C24_EmptyQueryRejected ==
    \A r \in DOMAIN reqs :
        reqs[r].query = "" =>
            /\ reqs[r].calls = <<>>
            /\ TurnsOf(r) = <<>>
            /\ reqs[r].response # Null => reqs[r].response[1].status # 200

\* C25: a request whose embedding call or vector search failed gets no
\* answer, stores no turn and ends with an error response.
C25_RetrievalFailureReported ==
    \A r \in DOMAIN reqs :
        reqs[r].search_error \/ reqs[r].failure = "embed" =>
            /\ reqs[r].answer = Null
            /\ TurnsOf(r) = <<>>
            /\ reqs[r].response # Null => reqs[r].response[1].status # 200

\* C26: a request whose completion request failed, or whose LLM
\* configuration is missing, ends with an error response: no normal
\* response, no answer field.
C26_CompletionFailureIsError ==
    \A r \in DOMAIN reqs :
        reqs[r].failure \in {"completion", "config"} =>
            /\ reqs[r].response # Null
            /\ reqs[r].response[1].status # 200
            /\ "answer" \notin DOMAIN reqs[r].response[1]

\* C27: the references of a response are made from the hits of the search,
\* one per hit, in the order the search returned them, and are no more than
\* n_results; the assistant turn stores the same list.
C27_ReferencesInSearchOrder ==
    \A r \in DOMAIN reqs :
        LET q == reqs[r] IN
        q.response # Null /\ q.failure = "" /\ q.response[1].status = 200 =>
            LET refs == q.response[1].references IN
            /\ Len(refs) = Len(q.hits)
            /\ Len(refs) <= q.n_results
            /\ \A i \in DOMAIN refs :
                 IF q.orch = "qdrant"
                 THEN /\ refs[i].chunk_text = q.hits[i].text
                      /\ refs[i].score = q.hits[i].score
                      /\ refs[i].metadata.video_title = q.hits[i].title
                 ELSE refs[i] = q.hits[i]
            /\ \A i \in DOMAIN chat_history :
                 chat_history[i].req = r /\ chat_history[i].role = "assistant"
                 => chat_history[i].metadata.references = refs

\* qdrant_chat returned two hits of equal score in the order of the search
C27_Witness ==
    \E r \in DOMAIN reqs :
        /\ reqs[r].orch = "qdrant"
        /\ reqs[r].hits = <<HitC, HitB>>
        /\ reqs[r].n_results = 2
        /\ reqs[r].response # Null
        /\ reqs[r].response[1].status = 200
        /\ reqs[r].response[1].references[1].chunk_text = HitC.text
        /\ reqs[r].response[1].references[2].chunk_text = HitB.text

\* C29: a request that carries a session id keeps it; one that carries none
\* gets an id that no client sent and no other request has; the response and
\* the stored turns of the request carry the request's id.
C29_SessionIdKeptOrFresh ==
    \A r \in DOMAIN reqs :
        LET q == reqs[r] IN
        /\ q.sent_session_id # "" => q.session_id = q.sent_session_id
        /\ q.sent_session_id = "" =>
             /\ q.session_id \notin SessionIds
             /\ \A o \in DOMAIN reqs : o # r => reqs[o].session_id # q.session_id
        /\ q.response # Null /\ q.response[1].status = 200 =>
             q.response[1].session_id = q.session_id
        /\ \A i \in DOMAIN chat_history :
             chat_history[i].req = r => chat_history[i].session_id = q.session_id

\* two answered requests without a session id, each with its two turns
C29_Witness ==
    /\ Len(reqs) = 2
    /\ \A r \in DOMAIN reqs :
         /\ reqs[r].sent_session_id = ""
         /\ reqs[r].response # Null
         /\ reqs[r].response[1].status = 200
         /\ Len(TurnsOf(r)) = 2
    /\ reqs[1].response[1].session_id # reqs[2].response[1].session_id

\* C30: the system message of a completion request starts with the prompt
\* stored in system configuration when there is one and with the built-in
\* prompt of the orchestrator otherwise.
C30_SystemPromptFromConfig ==
    \A r \in DOMAIN reqs :
        reqs[r].payload # Null =>
            LET system == reqs[r].payload[1].messages[1] IN
            /\ system.role = "system"
            /\ system.content[1] =
                 IF reqs[r].config # "" THEN reqs[r].config
                 ELSE IF reqs[r].orch = "qdrant" THEN BasePromptQdrant
                 ELSE DefaultPromptKnowledge

\* ------------------------------------------------------ resumed stages
\* C31: a stage invoked again after an attempt that stopped between its
\* side effect and its checkpoint leaves the store as one complete run
\* does: the transcripts table never holds more records of a media file
\* than there are jobs for that file.
C31_OneTranscriptPerJob ==
    \A p \in {transcripts[i].media_path : i \in DOMAIN transcripts} :
        Cardinality({i \in DOMAIN transcripts : transcripts[i].media_path = p})
            <= Cardinality({j \in DOMAIN jobs : MediaPath(jobs[j].url) = p})

\* C32: the result stored by the Transcribe checkpoint, which is what a
\* resuming worker reads, holds the transcript id and the segment list:
\* every stored result with a transcript id has the segments next to it.
C32_CheckpointHasSegments ==
    \A i \in DOMAIN jobs :
        HasTranscript(StoredResult(jobs, i)) => "segments" \in Keys(StoredResult(jobs, i))

\* C33: a worker runs the stage executors in the order Fetch, Transcribe,
\* Summarize, Index: it stands at the call of an executor only with the
\* checkpoints of the stages before it in the store, and at
\* finish_job_success only with every stage that had to run behind it.
C33_StagesInOrder ==
    \A w \in procs :
        LET saved == StoredResult(jobs, job_id[w]) IN
        /\ pc[w] = "transcribe" => FetchCheckpoint(saved) /\ HasMedia(res[w])
        /\ pc[w] = "summarize" =>
               /\ FetchCheckpoint(saved) /\ TranscribeCheckpoint(saved)
               /\ HasTranscript(res[w]) /\ Segs(res[w]) # <<>>
        /\ pc[w] = "step_d" /\ NeedsSync(res[w]) =>
               /\ FetchCheckpoint(saved) /\ TranscribeCheckpoint(saved)
               /\ SummarizeCheckpoint(saved)
        /\ pc[w] = "step_e" =>
               /\ HasMedia(res[w]) /\ HasTranscript(res[w])
               /\ NeedsSummarize(res[w]) => res[w].progress = SummarySkipped.progress
               /\ NeedsSync(res[w]) => "vector_synced" \in Keys(res[w])

\* C33 case: a worker stands at finish_job_success after all four executors
\* ran in its run: download, recogniser, summariser and vector sync.
C33_Witness ==
    \E w \in procs :
        /\ pc[w] = "step_e"
        /\ sync_success[w] = "ok"
        /\ res[w].stage = Summarized(<<>>, 0).stage
        /\ Len(transcripts) = 1 /\ Len(summaries) = 1
        /\ files # {}

\* ------------------------------------------------- completion requests
\* the completion requests a chat request has issued so far
CompletionRequests(q) == Len(SelectSeq(q.calls, LAMBDA c : c = "complete"))

\* C34 (as stated): a request never issues a second completion request and
\* none when its retrieval returned no hit; a finished request whose
\* retrieval returned a hit has issued exactly one.
C34_OneCompletionPerRequest ==
    \A r \in DOMAIN reqs :
        /\ CompletionRequests(reqs[r]) <= 1
        /\ reqs[r].hits = <<>> => CompletionRequests(reqs[r]) = 0
        /\ reqs[r].pc = "done" /\ reqs[r].hits # <<>> =>
               CompletionRequests(reqs[r]) = 1

\* C34 (amended): ... a finished request whose retrieval returned a hit has
\* issued exactly one, unless it ended with the error of an LLM API that is
\* not configured, and then it has issued none.
C34_OneCompletionWhenConfigured ==
    \A r \in DOMAIN reqs :
        /\ CompletionRequests(reqs[r]) <= 1
        /\ reqs[r].hits = <<>> => CompletionRequests(reqs[r]) = 0
        /\ reqs[r].failure = "config" =>
               /\ CompletionRequests(reqs[r]) = 0
               /\ reqs[r].response = <<ErrorResponse(500)>>
        /\ reqs[r].pc = "done" /\ reqs[r].hits # <<>> /\ reqs[r].failure # "config" =>
               CompletionRequests(reqs[r]) = 1

\* C34 case: an answered request with a hit and one completion request, next
\* to an answered request whose search returned no hit and that issued none.
C34_Witness ==
    /\ Len(reqs) = 2
    /\ reqs[1].pc = "done" /\ reqs[1].hits # <<>> /\ reqs[1].failure = ""
    /\ CompletionRequests(reqs[1]) = 1
    /\ reqs[2].pc = "done" /\ reqs[2].hits = <<>> /\ reqs[2].failure = ""
    /\ reqs[2].calls = <<"embed", "search">>
    /\ ~reqs[2].search_error

\* ------------------------------------------------------- vector collection
\* VectorStore.store_summary in backend/knowledge/vector_store.py.  The
\* collection is a ChromaDB collection: delete(where) removes the entries
\* whose metadata match, add(ids, ...) inserts the entries whose id the
\* collection does not hold and leaves an entry it holds as it is; either
\* call may raise.

\* store_summary calls of a run
MaxStores == 3

\* media files whose summaries are stored
VideoPaths == {<<"static", "u1">>, <<"static", "u2">>}
ParagraphA == [text |-> "t1", summary |-> "p1", start_time |-> 0, end_time |-> 10]
ParagraphB == [text |-> "t2", summary |-> "", start_time |-> 10, end_time |-> 20]
ParagraphLists == {<<ParagraphA>>, <<ParagraphB>>, <<ParagraphA, ParagraphB>>}

\* hashlib.md5(video_path.encode('utf-8')).hexdigest()
_generate_video_id(video_path) == <<"md5", video_path>>

\* f"{video_id}_overall" and f"{video_id}_para_{i}"
OverallId(video_id) == <<video_id, "overall", 0>>
ParagraphId(video_id, i) == <<video_id, "para", i>>

\* the summary argument as sync_transcript_to_vector_db builds it
OverallSummary(paragraphs) ==
    [topic |-> IF paragraphs[1].summary # "" THEN paragraphs[1].summary ELSE "video",
     paragraph_count |-> Len(paragraphs),
     total_duration |-> paragraphs[Len(paragraphs)].end_time]

OverallEntry(video_path, summary) ==
    [id       |-> OverallId(_generate_video_id(video_path)),
     document |-> <<"topic", summary.topic>>,
     metadata |-> [video_id |-> _generate_video_id(video_path), video_path |-> video_path,
                   type |-> "overall_summary", index |-> 0,
                   paragraph_count |-> summary.paragraph_count,
                   start_time |-> 0, end_time |-> summary.total_duration,
                   has_summary |-> TRUE]]

ParagraphEntry(video_path, para, i) ==
    [id       |-> ParagraphId(_generate_video_id(video_path), i),
     document |-> IF para.summary # "" THEN <<"summary", para.summary, "content", para.text>>
                  ELSE <<para.text>>,
     metadata |-> [video_id |-> _generate_video_id(video_path), video_path |-> video_path,
                   type |-> "paragraph", index |-> i,
                   paragraph_count |-> 0,
                   start_time |-> para.start_time, end_time |-> para.end_time,
                   has_summary |-> para.summary # ""]]

\* documents, metadatas and ids of one store_summary call
NewEntries(video_path, paragraphs) ==
    {OverallEntry(video_path, OverallSummary(paragraphs))}
        \cup {ParagraphEntry(video_path, paragraphs[k], k - 1) : k \in 1..Len(paragraphs)}

\* collection.delete(where={"video_id": video_id})
CollectionDeleteNone(c, video_id) == c
CollectionDelete(c, video_id) == {e \in c : e.metadata.video_id # video_id}

\* collection.add(documents, metadatas, ids)
CollectionAdd(c, entries) ==
    c \cup {e \in entries : \A x \in c : x.id # e.id}

\* the entries of one video
EntriesOf(c, video_path) == {e \in c : e.metadata.video_id = _generate_video_id(video_path)}

\* store_summary(video_path, summary, paragraphs, metadata): no collection
\* and initialize() fails: return False; a failed delete is logged and the
\* call goes on; a failed add returns False
StoreSummary(video_path, paragraphs, initialized, deleted, added) ==
    /\ Len(stored) < MaxStores
    /\ LET afterDelete == IF initialized /\ deleted
                          THEN CollectionDelete(collection, _generate_video_id(video_path))
                          ELSE collection
       IN  /\ collection' = IF initialized /\ added
                            THEN CollectionAdd(afterDelete, NewEntries(video_path, paragraphs))
                            ELSE afterDelete
           /\ stored' = Append(stored, [video_path |-> video_path, paragraphs |-> paragraphs,
                                        deleted |-> initialized /\ deleted,
                                        ret |-> initialized /\ added])
    /\ UNCHANGED <<store, procs, budget>>
    /\ UNCHANGED locals
    /\ UNCHANGED <<chat_history, reqs, inserts, fetched, formatted>>

InitVector == InitWith({}, 0)

NextVector ==
    \E video_path \in VideoPaths : \E paragraphs \in ParagraphLists :
        \E initialized \in BOOLEAN : \E deleted \in BOOLEAN : \E added \in BOOLEAN :
            StoreSummary(video_path, paragraphs, initialized, deleted, added)

SpecVector == InitVector /\ [][NextVector]_vars

\* the last store_summary call made for a video (0: none)
LastStore(video_path) ==
    IF \E k \in DOMAIN stored : stored[k].video_path = video_path
    THEN Max({k \in DOMAIN stored : stored[k].video_path = video_path})
    ELSE 0

C36_PendingClaimedOnce ==
    /\ [](\A w \in procs : \A v \in procs :
            pc[w] = "claim_update" /\ pc[v] = "claim_update" /\ w # v
                => job_id[w] # job_id[v])
    /\ [][\A i \in DOMAIN jobs :
            jobs'[i].started_at # jobs[i].started_at =>
                /\ jobs[i].status = "pending" /\ jobs'[i].status = "running"
                /\ jobs[i].started_at = 0]_vars

\* C36 case: two claims in flight at once, each holding its own pending
\* row, while no job is running yet.
C36_Witness ==
    /\ Len(jobs) = 2
    /\ pc["w1"] = "claim_update" /\ pc["w2"] = "claim_update"
    /\ job_id["w1"] # job_id["w2"]
    /\ \A i \in DOMAIN jobs : jobs[i].status = "pending"

\* C37: a job whose status is success or failed is not changed by any step:
\* status, result, error, started_at and finished_at stay as they are.
C37_TerminalJobsFrozen ==
    [][\A i \in DOMAIN jobs :
          jobs[i].status \in Terminal => jobs'[i] = jobs[i]]_vars

\* ------------------------------------------------------ turns of a session
\* the turns of a session in insertion order
SessionTurns(sid) == SelectSeq(chat_history, LAMBDA t : t.session_id = sid)

\* every request of the session has returned, none with a failed history
\* write
SessionQuiet(sid) ==
    \A r \in DOMAIN reqs :
        reqs[r].session_id = sid => reqs[r].pc = "done" /\ reqs[r].logged = {}

\* C38: once the requests of a session have returned with their history
\* writes done, the session's turns alternate user, assistant, and every
\* assistant turn stands right after the user turn of its own request.
C38_TurnsAlternate ==
    \A sid \in {reqs[r].session_id : r \in DOMAIN reqs} :
        SessionQuiet(sid) =>
            \A k \in DOMAIN SessionTurns(sid) :
                IF k % 2 = 1
                THEN SessionTurns(sid)[k].role = "user"
                ELSE /\ SessionTurns(sid)[k].role = "assistant"
                     /\ SessionTurns(sid)[k].req = SessionTurns(sid)[k - 1].req

\* C39: a request whose completion request failed has returned and has
\* appended no turn: the history holds the turns of other requests only.
C39_FailedCompletionAppendsNothing ==
    \A r \in DOMAIN reqs :
        reqs[r].failure = "completion" =>
            /\ reqs[r].pc = "done"
            /\ \A k \in DOMAIN chat_history : chat_history[k].req # r

\* C39 case: in one session a request was answered and stored its two
\* turns, and a second one, with a hit, had its completion request fail.
C39_Witness ==
    /\ Len(reqs) = 2
    /\ reqs[1].session_id = reqs[2].session_id
    /\ reqs[1].pc = "done" /\ reqs[1].failure = "" /\ reqs[1].logged = {}
    /\ reqs[2].pc = "done" /\ reqs[2].failure = "completion"
    /\ reqs[2].hits # <<>>
    /\ CompletionRequests(reqs[2]) = 1
    /\ Len(chat_history) = 2

====
